---- MODULE Spec2Model ----
(***************************************************************************)
(* Model of bearaujus/bjson: the path-addressed JSON tree handle (type     *)
(* bjson) with AddElement / GetElement / SetElement / RemoveElement /      *)
(* EscapeElement / UnescapeElement / Copy.                                 *)
(*                                                                         *)
(* Go maps and slices are references.  The model keeps a heap of map       *)
(* objects and slice backing arrays, so that two handles may share a       *)
(* container and a write through one is seen through the other.            *)
(* Strings (keys, path segments, string values, JSON text) are sequences   *)
(* of one-character strings.                                               *)
(***************************************************************************)
EXTENDS Integers, Sequences, FiniteSets, TLC

VARIABLES heap, handles, last, steps, inserted, legacy, tracer

vars == <<heap, handles, last, steps, inserted, legacy, tracer>>

(***************************************************************************)
(* Bounds                                                                  *)
(***************************************************************************)
\* number of API calls on the tree in one run of Spec
MaxSteps == 1
\* number of API calls on the handles in one run of SpecAlias
MaxCalls == 2

\* calls in a run of SpecEscape
MaxEscapes == 2

\* calls in a run of SpecCopy
MaxCopies == 2

\* calls in a run of SpecFrame
MaxFrames == 1

\* calls in a run of SpecLegacy
MaxLegacy == 3

\* calls in a run of SpecTracer, and the longest list of targets
MaxNext == 4
MaxTargets == 3

(***************************************************************************)
(* Characters and strings                                                  *)
(***************************************************************************)
DigitChar == <<"0", "1", "2", "3", "4", "5", "6", "7", "8", "9">>

IsDigit(c) == \E d \in 1..10 : DigitChar[d] = c

DigitVal(c) == (CHOOSE d \in 1..10 : DigitChar[d] = c) - 1

\* byte value of the characters the model uses (ASCII)
CharCode(c) ==
    CASE c = " " -> 32
      [] c = "\"" -> 34
      [] c = "+" -> 43
      [] c = "," -> 44
      [] c = "-" -> 45
      [] c = "." -> 46
      [] IsDigit(c) -> 48 + DigitVal(c)
      [] c = ":" -> 58
      [] c = "[" -> 91
      [] c = "\\" -> 92
      [] c = "]" -> 93
      [] c = "a" -> 97
      [] c = "b" -> 98
      [] c = "e" -> 101
      [] c = "f" -> 102
      [] c = "l" -> 108
      [] c = "n" -> 110
      [] c = "r" -> 114
      [] c = "s" -> 115
      [] c = "t" -> 116
      [] c = "u" -> 117
      [] c = "x" -> 120
      [] c = "{" -> 123
      [] c = "}" -> 125
      [] c = "DEL" -> 127

\* byte-wise order of two strings, as sort.Strings orders the keys of a map
RECURSIVE StrLess(_, _)
StrLess(a, b) ==
    IF a = <<>> THEN b # <<>>
    ELSE IF b = <<>> THEN FALSE
    ELSE IF Head(a) = Head(b) THEN StrLess(Tail(a), Tail(b))
    ELSE CharCode(Head(a)) < CharCode(Head(b))

\* the keys of a map in increasing order
RECURSIVE SortedKeys(_)
SortedKeys(ks) ==
    IF ks = {} THEN <<>>
    ELSE LET m == CHOOSE k \in ks : \A o \in ks : o = k \/ StrLess(k, o)
         IN <<m>> \o SortedKeys(ks \ {m})

RECURSIVE Concat(_)
Concat(ss) == IF ss = <<>> THEN <<>> ELSE Head(ss) \o Concat(Tail(ss))

\* s has the characters of w at positions i, i+1, ...
HasAt(s, i, w) ==
    /\ i + Len(w) - 1 <= Len(s)
    /\ \A j \in 1..Len(w) : s[i + j - 1] = w[j]

(***************************************************************************)
(* JSON values.  A value is a record [k, x]: k is the kind and x the       *)
(* payload.  "arr"/"obj" are values by content (a decoded document or a    *)
(* literal); "slice"/"map" are Go references into the heap.                *)
(***************************************************************************)
Null == [k |-> "null", x |-> 0]
Bool(b) == [k |-> "bool", x |-> b]
Num(n) == [k |-> "num", x |-> n]
Str(s) == [k |-> "str", x |-> s]
Arr(es) == [k |-> "arr", x |-> es]
Obj(m) == [k |-> "obj", x |-> m]

(***************************************************************************)
(* encoding/json: json.Marshal on a value by content                       *)
(***************************************************************************)
RECURSIVE NatText(_)
NatText(n) ==
    IF n < 10 THEN <<DigitChar[n + 1]>>
    ELSE NatText(n \div 10) \o <<DigitChar[(n % 10) + 1]>>

\* an integral float64 is written without a fraction
NumText(n) == IF n < 0 THEN <<"-">> \o NatText(0 - n) ELSE NatText(n)

\* a JSON string literal: the quote and the backslash are escaped, every
\* other character of the model's alphabet (DEL included) is written as is
RECURSIVE EscapeJSONChars(_)
EscapeJSONChars(s) ==
    IF s = <<>> THEN <<>>
    ELSE (IF Head(s) \in {"\"", "\\"} THEN <<"\\", Head(s)>> ELSE <<Head(s)>>)
         \o EscapeJSONChars(Tail(s))

QuoteJSON(s) == <<"\"">> \o EscapeJSONChars(s) \o <<"\"">>

RECURSIVE JoinComma(_)
JoinComma(ss) ==
    IF ss = <<>> THEN <<>>
    ELSE IF Len(ss) = 1 THEN ss[1]
    ELSE ss[1] \o <<",">> \o JoinComma(Tail(ss))

\* the encoder on a value without a cycle
RECURSIVE Encode(_)
Encode(a) ==
    CASE a.k = "null" -> <<"n", "u", "l", "l">>
      [] a.k = "bool" -> IF a.x THEN <<"t", "r", "u", "e">>
                         ELSE <<"f", "a", "l", "s", "e">>
      [] a.k = "num" -> NumText(a.x)
      [] a.k = "str" -> QuoteJSON(a.x)
      [] a.k = "arr" ->
            <<"[">> \o JoinComma([i \in 1..Len(a.x) |-> Encode(a.x[i])])
                    \o <<"]">>
      [] a.k = "obj" ->
            LET ks == SortedKeys(DOMAIN a.x)
            IN <<"{">> \o JoinComma([i \in 1..Len(ks) |->
                            QuoteJSON(ks[i]) \o <<":">> \o Encode(a.x[ks[i]])])
                       \o <<"}">>

\* a container that holds itself, or a value of a type that has no JSON
\* form (a func): the encoder gives up on it with an error
RECURSIVE Unsupported(_)
Unsupported(a) ==
    CASE a.k \in {"cycle", "func"} -> TRUE
      [] a.k = "arr" -> \E i \in 1..Len(a.x) : Unsupported(a.x[i])
      [] a.k = "obj" -> \E q \in DOMAIN a.x : Unsupported(a.x[q])
      [] OTHER -> FALSE

\* json.Marshal; the callers drop the error, or read no text: the text is
\* empty then
Marshal(a) == IF Unsupported(a) THEN <<>> ELSE Encode(a)

(***************************************************************************)
(* encoding/json: json.Unmarshal into an interface{}.  A parse returns     *)
(* [ok, v, i]: success, the value, and the position after it.              *)
(* The model's alphabet has no white space, no fraction or exponent and    *)
(* no \u escape; texts that would need them are not produced.              *)
(***************************************************************************)
ParseFail == [ok |-> FALSE, v |-> Null, i |-> 0]

ParseOk(v, i) == [ok |-> TRUE, v |-> v, i |-> i]

\* i is the position after the opening quote
RECURSIVE ParseStringBody(_, _, _)
ParseStringBody(s, i, acc) ==
    IF i > Len(s) THEN ParseFail
    ELSE IF s[i] = "\"" THEN ParseOk(acc, i + 1)
    ELSE IF s[i] = "\\" THEN
        IF i + 1 <= Len(s) /\ s[i + 1] \in {"\"", "\\"}
        THEN ParseStringBody(s, i + 2, Append(acc, s[i + 1]))
        ELSE ParseFail
    ELSE ParseStringBody(s, i + 1, Append(acc, s[i]))

RECURSIVE ParseDigits(_, _, _)
ParseDigits(s, i, n) ==
    IF i <= Len(s) /\ IsDigit(s[i])
    THEN ParseDigits(s, i + 1, 10 * n + DigitVal(s[i]))
    ELSE ParseOk(n, i)

\* -? ( 0 | [1-9][0-9]* )
ParseNumber(s, i) ==
    LET neg == s[i] = "-"
        j == IF neg THEN i + 1 ELSE i
    IN IF j > Len(s) \/ ~IsDigit(s[j]) THEN ParseFail
       ELSE IF s[j] = "0"
       THEN IF j + 1 <= Len(s) /\ IsDigit(s[j + 1]) THEN ParseFail
            ELSE ParseOk(Num(0), j + 1)
       ELSE LET r == ParseDigits(s, j, 0)
            IN ParseOk(Num(IF neg THEN 0 - r.v ELSE r.v), r.i)

\* white space may stand before and after every value and separator
RECURSIVE SkipSpace(_, _)
SkipSpace(s, i) ==
    IF i <= Len(s) /\ s[i] = " " THEN SkipSpace(s, i + 1) ELSE i

RECURSIVE ParseValue(_, _), ParseElems(_, _, _), ParseMembers(_, _, _),
          ParseBare(_, _)
ParseValue(s, i) == ParseBare(s, SkipSpace(s, i))

\* i is the position of the first character of the value
ParseBare(s, i) ==
    IF i > Len(s) THEN ParseFail
    ELSE CASE s[i] = "n" ->
                IF HasAt(s, i, <<"n", "u", "l", "l">>)
                THEN ParseOk(Null, i + 4) ELSE ParseFail
           [] s[i] = "t" ->
                IF HasAt(s, i, <<"t", "r", "u", "e">>)
                THEN ParseOk(Bool(TRUE), i + 4) ELSE ParseFail
           [] s[i] = "f" ->
                IF HasAt(s, i, <<"f", "a", "l", "s", "e">>)
                THEN ParseOk(Bool(FALSE), i + 5) ELSE ParseFail
           [] s[i] = "\"" ->
                LET r == ParseStringBody(s, i + 1, <<>>)
                IN IF r.ok THEN ParseOk(Str(r.v), r.i) ELSE ParseFail
           [] s[i] = "[" ->
                IF HasAt(s, SkipSpace(s, i + 1), <<"]">>)
                THEN ParseOk(Arr(<<>>), SkipSpace(s, i + 1) + 1)
                ELSE ParseElems(s, i + 1, <<>>)
           [] s[i] = "{" ->
                IF HasAt(s, SkipSpace(s, i + 1), <<"}">>)
                THEN ParseOk(Obj(<<>>), SkipSpace(s, i + 1) + 1)
                ELSE ParseMembers(s, SkipSpace(s, i + 1), <<>>)
           [] s[i] = "-" \/ IsDigit(s[i]) -> ParseNumber(s, i)
           [] OTHER -> ParseFail

\* i is the position of the next element of an array
ParseElems(s, i, acc) ==
    LET r == ParseValue(s, i)
        j == SkipSpace(s, r.i)
    IN IF ~r.ok \/ j > Len(s) THEN ParseFail
       ELSE IF s[j] = "," THEN ParseElems(s, j + 1, Append(acc, r.v))
       ELSE IF s[j] = "]" THEN ParseOk(Arr(Append(acc, r.v)), j + 1)
       ELSE ParseFail

\* i is the position of the next key of an object; a repeated key keeps the
\* value read last
ParseMembers(s, i, m) ==
    IF i > Len(s) \/ s[i] # "\"" THEN ParseFail
    ELSE LET key == ParseStringBody(s, i + 1, <<>>)
             c == SkipSpace(s, key.i)
         IN IF ~key.ok \/ c > Len(s) \/ s[c] # ":" THEN ParseFail
            ELSE LET r == ParseValue(s, c + 1)
                     j == SkipSpace(s, r.i)
                     m2 == [q \in (DOMAIN m) \cup {key.v} |->
                               IF q = key.v THEN r.v ELSE m[q]]
                 IN IF ~r.ok \/ j > Len(s) THEN ParseFail
                    ELSE IF s[j] = ","
                    THEN ParseMembers(s, SkipSpace(s, j + 1), m2)
                    ELSE IF s[j] = "}" THEN ParseOk(Obj(m2), j + 1)
                    ELSE ParseFail

\* the whole text must be one value
Unmarshal(s) ==
    LET r == ParseValue(s, 1)
    IN IF r.ok /\ SkipSpace(s, r.i) = Len(s) + 1 THEN r ELSE ParseFail

(***************************************************************************)
(* strconv.Quote and strconv.Unquote (Go string literal syntax)            *)
(***************************************************************************)
\* DEL is not printable: Quote writes it as \x7f
RECURSIVE QuoteChars(_)
QuoteChars(s) ==
    IF s = <<>> THEN <<>>
    ELSE (CASE Head(s) \in {"\"", "\\"} -> <<"\\", Head(s)>>
            [] Head(s) = "DEL" -> <<"\\", "x", "7", "f">>
            [] OTHER -> <<Head(s)>>)
         \o QuoteChars(Tail(s))

Quote(s) == <<"\"">> \o QuoteChars(s) \o <<"\"">>

\* the body of a double-quoted literal: an unescaped quote is a syntax
\* error, \" and \\ and \x7f are the escapes the alphabet can spell
RECURSIVE UnquoteBody(_, _)
UnquoteBody(s, acc) ==
    IF s = <<>> THEN ParseOk(acc, 0)
    ELSE IF Head(s) = "\"" THEN ParseFail
    ELSE IF Head(s) = "\\" THEN
        IF Len(s) >= 2 /\ s[2] \in {"\"", "\\"}
        THEN UnquoteBody(SubSeq(s, 3, Len(s)), Append(acc, s[2]))
        ELSE IF HasAt(s, 2, <<"x", "7", "f">>)
        THEN UnquoteBody(SubSeq(s, 5, Len(s)), Append(acc, "DEL"))
        ELSE ParseFail
    ELSE UnquoteBody(Tail(s), Append(acc, Head(s)))

Unquote(s) ==
    IF Len(s) < 2 \/ s[1] # "\"" \/ s[Len(s)] # "\"" THEN ParseFail
    ELSE UnquoteBody(SubSeq(s, 2, Len(s) - 1), <<>>)

(***************************************************************************)
(* strconv.Atoi on a path segment: [ok, n]                                 *)
(***************************************************************************)
Atoi(seg) ==
    LET signed == seg # <<>> /\ seg[1] \in {"+", "-"}
        ds == IF signed THEN Tail(seg) ELSE seg
    IN IF ds = <<>> \/ \E j \in 1..Len(ds) : ~IsDigit(ds[j])
       THEN [ok |-> FALSE, n |-> 0]
       ELSE LET m == ParseDigits(ds, 1, 0).v
            IN [ok |-> TRUE, n |-> IF signed /\ seg[1] = "-" THEN 0 - m ELSE m]

(***************************************************************************)
(* The Go heap.  maps[a] is the map object at address a (a function from   *)
(* keys to values); arrs[a] is the backing array at address a, its length  *)
(* is the capacity of every slice that points at it.  A map value is       *)
(* [k |-> "map", x |-> a]; a slice value is [k |-> "slice", x |-> [p, len]]*)
(* (every slice of the program starts at element 0 of its backing array).  *)
(***************************************************************************)
EmptyHeap == [maps |-> <<>>, arrs |-> <<>>]

MapRef(a) == [k |-> "map", x |-> a]
Slice(p, len) == [k |-> "slice", x |-> [p |-> p, len |-> len]]

Cycle == [k |-> "cycle", x |-> 0]

\* the value by content: what a walk over the references reads; seen holds
\* the containers the walk is inside of, and one met again is a cycle
RECURSIVE Walk(_, _, _)
Walk(h, v, seen) ==
    CASE v.k = "map" ->
            IF <<"map", v.x>> \in seen THEN Cycle
            ELSE Obj([q \in DOMAIN h.maps[v.x] |->
                        Walk(h, h.maps[v.x][q], seen \cup {<<"map", v.x>>})])
      [] v.k = "slice" ->
            IF <<"arr", v.x.p>> \in seen THEN Cycle
            ELSE Arr([i \in 1..v.x.len |->
                        Walk(h, h.arrs[v.x.p][i], seen \cup {<<"arr", v.x.p>>})])
      [] v.k = "arr" -> Arr([i \in 1..Len(v.x) |-> Walk(h, v.x[i], seen)])
      [] v.k = "obj" -> Obj([q \in DOMAIN v.x |-> Walk(h, v.x[q], seen)])
      [] OTHER -> v

Deref(h, v) == Walk(h, v, {})

\* (a slip: the map is left with the stored key alone)
MapStoreAlone(h, a, key, v) ==
    [h EXCEPT !.maps[a] = [q \in {key} |-> v]]

\* m[key] = v
MapStore(h, a, key, v) ==
    [h EXCEPT !.maps[a] = [q \in (DOMAIN @) \cup {key} |->
                              IF q = key THEN v ELSE @[q]]]

\* (a slip: the key stays in the map)
MapDeleteKept(h, a, key) == h

\* delete(m, key)
MapDelete(h, a, key) ==
    [h EXCEPT !.maps[a] = [q \in (DOMAIN @) \ {key} |-> @[q]]]

\* arr[i] = v, i counted from 0
ArrStore(h, p, i, v) == [h EXCEPT !.arrs[p][i + 1] = v]

\* capacity chosen by append when the backing array is full
GrowCap(oldCap, needed) ==
    IF needed > 2 * oldCap THEN needed ELSE 2 * oldCap

\* (a slip: the result of append is dropped)
SliceAppendDropped(h, sl, v) == [h |-> h, v |-> Slice(sl.p, sl.len)]

\* append(sl, v): in place when the capacity allows, else into a new
\* backing array; returns the heap and the new slice
SliceAppend(h, sl, v) ==
    LET cap == Len(h.arrs[sl.p])
    IN IF sl.len < cap
       THEN [h |-> ArrStore(h, sl.p, sl.len, v), v |-> Slice(sl.p, sl.len + 1)]
       ELSE LET ncap == GrowCap(cap, sl.len + 1)
                back == [i \in 1..ncap |->
                            IF i <= sl.len THEN h.arrs[sl.p][i]
                            ELSE IF i = sl.len + 1 THEN v ELSE Null]
                h2 == [h EXCEPT !.arrs = Append(@, back)]
            IN [h |-> h2, v |-> Slice(Len(h2.arrs), sl.len + 1)]

\* capacity of a slice the decoder filled by n appends to make([]any, 0)
RECURSIVE DecodedCap(_)
DecodedCap(n) ==
    IF n = 0 THEN 0
    ELSE LET c == DecodedCap(n - 1)
         IN IF n <= c THEN c ELSE GrowCap(c, n)

\* allocate a decoded value: every array and object gets a fresh address
RECURSIVE Build(_, _), BuildSeq(_, _, _)
Build(h, a) ==
    CASE a.k = "arr" ->
            LET r == BuildSeq(h, a.x, <<>>)
                back == [i \in 1..DecodedCap(Len(a.x)) |->
                            IF i <= Len(a.x) THEN r.v[i] ELSE Null]
                h2 == [r.h EXCEPT !.arrs = Append(@, back)]
            IN [h |-> h2, v |-> Slice(Len(h2.arrs), Len(a.x))]
      [] a.k = "obj" ->
            LET ks == SortedKeys(DOMAIN a.x)
                r == BuildSeq(h, [i \in 1..Len(ks) |-> a.x[ks[i]]], <<>>)
                m == [q \in DOMAIN a.x |->
                        r.v[CHOOSE i \in 1..Len(ks) : ks[i] = q]]
                h2 == [r.h EXCEPT !.maps = Append(@, m)]
            IN [h |-> h2, v |-> MapRef(Len(h2.maps))]
      [] OTHER -> [h |-> h, v |-> a]

BuildSeq(h, as, acc) ==
    IF as = <<>> THEN [h |-> h, v |-> acc]
    ELSE LET r == Build(h, Head(as))
         IN BuildSeq(r.h, Tail(as), Append(acc, r.v))

(***************************************************************************)
(* Results of the operations: the heap after, a value, and the error kind. *)
(* "none" is a nil error; "panic" is a run-time panic (no error value is   *)
(* returned, the call does not return).                                    *)
(***************************************************************************)
Res(h, v, err) == [h |-> h, v |-> v, err |-> err]

updateOptionAdd == "add"
updateOptionSet == "set"
updateOptionRemove == "remove"

\* deepCopy: marshal the value, unmarshal the text into fresh containers.
\* A []byte is taken as JSON text, a *bjson is unwrapped first.
\* (A result that several lines read is handed to a helper as a parameter.)
Built(b) == Res(b.h, b.v, "none")

Decoded(h, r) ==
    IF ~r.ok THEN Res(h, Null, "SerializationFailure") ELSE Built(Build(h, r.v))

\* (a slip: the value of a *bjson is handed on as it is)
deepCopyShared(h, value) ==
    IF value.k = "bjson" THEN Res(h, value.x, "none")
    ELSE Decoded(h, Unmarshal(
            IF value.k = "bytes" THEN value.x ELSE Marshal(Deref(h, value))))

deepCopy(h, value) ==
    Decoded(h, Unmarshal(
        IF value.k = "bytes" THEN value.x
        ELSE Marshal(Deref(h, IF value.k = "bjson" THEN value.x ELSE value))))

\* (a slip: the second result of the map read is not looked at)
getElementFromMapZero(h, obj, target) ==
    IF target \notin DOMAIN h.maps[obj.x] THEN Res(h, Null, "none")
    ELSE Res(h, h.maps[obj.x][target], "none")

getElementFromMap(h, obj, target) ==
    IF target \notin DOMAIN h.maps[obj.x] THEN Res(h, Null, "NotFound")
    ELSE Res(h, h.maps[obj.x][target], "none")

getElementFromArray(h, arr, target) ==
    LET a == Atoi(target)
    IN IF ~a.ok \/ a.n < 0 \/ a.n >= arr.x.len
       THEN Res(h, Null, "InvalidIndex")
       ELSE Res(h, h.arrs[arr.x.p][a.n + 1], "none")

\* getElement: the selector after the last target, not copied
RECURSIVE getElement(_, _, _)
getElement(h, selector, targets) ==
    IF targets = <<>> THEN Res(h, selector, "none")
    ELSE LET r == CASE selector.k = "map" ->
                          getElementFromMap(h, selector, Head(targets))
                    [] selector.k = "slice" ->
                          getElementFromArray(h, selector, Head(targets))
                    [] OTHER -> Res(h, Null, "NotFound")
         IN IF r.err # "none" THEN r
            ELSE getElement(h, r.v, Tail(targets))

\* (a slip: the new value never reaches the map)
updateTailMapElementUnstored(h, option, parent, value, currentTarget, child, isExist) ==
    IF isExist /\ option = updateOptionAdd /\ child.k # "slice"
    THEN Res(h, Null, "AlreadyExists")
    ELSE IF option = updateOptionRemove
    THEN Res(MapDelete(h, parent.x, currentTarget), parent, "none")
    ELSE Res(h, parent, "none")

updateTailMapElement(h, option, parent, value, currentTarget, child, isExist) ==
    IF /\ child.k = "slice"
       /\ option \in {updateOptionAdd, updateOptionSet}
       /\ currentTarget \in DOMAIN h.maps[parent.x]
       /\ option = updateOptionAdd
    THEN LET r == SliceAppend(h, child.x, value)
         IN Res(MapStore(r.h, parent.x, currentTarget, r.v), parent, "none")
    ELSE IF isExist /\ option = updateOptionAdd
    THEN Res(h, Null, "AlreadyExists")
    ELSE IF option = updateOptionRemove
    THEN Res(MapDelete(h, parent.x, currentTarget), parent, "none")
    ELSE Res(MapStore(h, parent.x, currentTarget, value), parent, "none")

\* (a slip: Remove cuts the slice short without moving the elements down)
updateTailArrayElementTruncating(h, option, parent, value, idx) ==
    IF idx < 0 THEN Res(h, Null, "panic")
    ELSE IF h.arrs[parent.x.p][idx + 1].k = "slice" /\ option = updateOptionAdd
    THEN Res(ArrStore(SliceAppend(h, h.arrs[parent.x.p][idx + 1].x, value).h,
                      parent.x.p, idx,
                      SliceAppend(h, h.arrs[parent.x.p][idx + 1].x, value).v),
             parent, "none")
    ELSE IF option = updateOptionSet
    THEN Res(ArrStore(h, parent.x.p, idx, value), parent, "none")
    ELSE IF option = updateOptionRemove
    THEN Res(h, Slice(parent.x.p, parent.x.len - 1), "none")
    ELSE Res(h, Null, "InvalidOperation")

\* idx < len(parentObj) is known; a negative idx makes parentObj[idx] panic
updateTailArrayElement(h, option, parent, value, idx) ==
    IF idx < 0 THEN Res(h, Null, "panic")
    ELSE LET p == parent.x.p
             len == parent.x.len
             child == h.arrs[p][idx + 1]
         IN IF child.k = "slice" /\ option = updateOptionAdd
            THEN LET r == SliceAppend(h, child.x, value)
                 IN Res(ArrStore(r.h, p, idx, r.v), parent, "none")
            ELSE IF option = updateOptionSet
            THEN Res(ArrStore(h, p, idx, value), parent, "none")
            ELSE IF option = updateOptionRemove
            THEN \* append(parentObj[:idx], parentObj[idx+1:]...) moves the
                 \* elements after idx one place down in the same array
                 Res([h EXCEPT !.arrs[p] = [i \in 1..Len(@) |->
                         IF i > idx /\ i < len THEN @[i + 1] ELSE @[i]]],
                     Slice(p, len - 1), "none")
            ELSE Res(h, Null, "InvalidOperation")

\* (a slip: only Remove is refused on a key that is not there)
RECURSIVE recursiveUpdateElementCreating(_, _, _, _, _, _)
recursiveUpdateElementCreating(h, option, parent, value, currentTarget, remainingTargets) ==
    LET isTail == Len(remainingTargets) = 1
    IN CASE parent.k = "map" ->
            LET parentObj == h.maps[parent.x]
                isExist == currentTarget \in DOMAIN parentObj
                child == IF isExist THEN parentObj[currentTarget] ELSE Null
            IN IF ~isExist /\ option = updateOptionRemove
               THEN Res(h, Null, "NotFound")
               ELSE IF isTail
               THEN updateTailMapElement(h, option, parent, value,
                                         currentTarget, child, isExist)
               ELSE LET r == recursiveUpdateElementCreating(h, option, child,
                                value, Head(remainingTargets),
                                Tail(remainingTargets))
                    IN IF r.err # "none" THEN Res(r.h, Null, r.err)
                       ELSE Res(MapStore(r.h, parent.x, currentTarget, r.v),
                                parent, "none")
         [] parent.k = "slice" ->
            LET a == Atoi(currentTarget)
                len == parent.x.len
            IN IF ~a.ok THEN Res(h, Null, "InvalidIndex")
               ELSE IF len = 0 \/ a.n >= len THEN Res(h, Null, "InvalidIndex")
               ELSE IF isTail
               THEN updateTailArrayElement(h, option, parent, value, a.n)
               ELSE IF a.n < 0 THEN Res(h, Null, "panic")
               ELSE LET r == recursiveUpdateElementCreating(h, option,
                                h.arrs[parent.x.p][a.n + 1], value,
                                Head(remainingTargets), Tail(remainingTargets))
                    IN IF r.err = "panic" THEN r
                       ELSE LET h2 == ArrStore(r.h, parent.x.p, a.n, r.v)
                            IN IF r.err # "none" THEN Res(h2, Null, r.err)
                               ELSE Res(h2, parent, "none")
         [] OTHER -> Res(h, Null, "NotFound")

RECURSIVE recursiveUpdateElement(_, _, _, _, _, _)
recursiveUpdateElement(h, option, parent, value, currentTarget, remainingTargets) ==
    LET isTail == Len(remainingTargets) = 1
    IN CASE parent.k = "map" ->
            LET parentObj == h.maps[parent.x]
                isExist == currentTarget \in DOMAIN parentObj
                child == IF isExist THEN parentObj[currentTarget] ELSE Null
            IN IF ~isExist /\ option \in {updateOptionSet, updateOptionRemove}
               THEN Res(h, Null, "NotFound")
               ELSE IF isTail
               THEN updateTailMapElement(h, option, parent, value,
                                         currentTarget, child, isExist)
               ELSE LET r == recursiveUpdateElement(h, option, child, value,
                                Head(remainingTargets), Tail(remainingTargets))
                    IN IF r.err # "none" THEN Res(r.h, Null, r.err)
                       ELSE Res(MapStore(r.h, parent.x, currentTarget, r.v),
                                parent, "none")
         [] parent.k = "slice" ->
            LET a == Atoi(currentTarget)
                len == parent.x.len
            IN IF ~a.ok THEN Res(h, Null, "InvalidIndex")
               ELSE IF len = 0 \/ a.n >= len THEN Res(h, Null, "InvalidIndex")
               ELSE IF isTail
               THEN updateTailArrayElement(h, option, parent, value, a.n)
               ELSE IF a.n < 0 THEN Res(h, Null, "panic")
               ELSE LET r == recursiveUpdateElement(h, option,
                                h.arrs[parent.x.p][a.n + 1], value,
                                Head(remainingTargets), Tail(remainingTargets))
                    IN IF r.err = "panic" THEN r
                       \* parentObj[idx], err = ...: the element is assigned
                       \* whatever the call returned, nil on an error
                       ELSE LET h2 == ArrStore(r.h, parent.x.p, a.n, r.v)
                            IN IF r.err # "none" THEN Res(h2, Null, r.err)
                               ELSE Res(h2, parent, "none")
         [] OTHER -> Res(h, Null, "NotFound")

\* (a slip: the branch of Set is missing)
updateTopLevelElementAddOnly(h, root, option, value) ==
    IF root.k = "slice" /\ option = updateOptionAdd
    THEN SliceAppend(h, root.x, value) @@ [err |-> "none"]
    ELSE Res(h, root, "InvalidOperation")

\* (a slip: Remove without a target empties the root)
updateTopLevelElementClearing(h, root, option, value) ==
    IF root.k = "slice" /\ option = updateOptionAdd
    THEN SliceAppend(h, root.x, value) @@ [err |-> "none"]
    ELSE IF option = updateOptionSet THEN Res(h, value, "none")
    ELSE IF option = updateOptionRemove THEN Res(h, Null, "none")
    ELSE Res(h, root, "InvalidOperation")

\* the result value is je.value after the call
updateTopLevelElement(h, root, option, value) ==
    IF root.k = "slice" /\ option = updateOptionAdd
    THEN SliceAppend(h, root.x, value) @@ [err |-> "none"]
    ELSE IF option = updateOptionSet THEN Res(h, value, "none")
    ELSE Res(h, root, "InvalidOperation")

\* value is Null for a nil interface (never copied); the result value is
\* je.value after the call
\* je.value = nValue only when the recursion returned no error
updateRoot(root, r) ==
    IF r.err # "none" THEN Res(r.h, root, r.err) ELSE Res(r.h, r.v, "none")

\* c is the copied value; a dummy last target "" is appended
updateCopied(c, root, option, targets) ==
    IF c.err # "none" THEN Res(c.h, root, c.err)
    ELSE IF targets = <<>> THEN updateTopLevelElement(c.h, root, option, c.v)
    ELSE updateRoot(root,
            recursiveUpdateElement(c.h, option, root, c.v, Head(targets),
                                   Append(Tail(targets), <<>>)))

updateElement(h, root, option, value, targets) ==
    updateCopied(IF value # Null THEN deepCopy(h, value)
                 ELSE Res(h, Null, "none"),
                 root, option, targets)

\* JSONPath.String(): the segments the text shows, the first one only
JSONPathString(path) == <<path[1]>>

\* the segments that the error of getElement prints, none without an error
RECURSIVE getElementLocation(_, _, _, _)
getElementLocation(h, selector, targets, path) ==
    IF targets = <<>> THEN <<>>
    ELSE LET r == CASE selector.k = "map" ->
                          getElementFromMap(h, selector, Head(targets))
                    [] selector.k = "slice" ->
                          getElementFromArray(h, selector, Head(targets))
                    [] OTHER -> Res(h, Null, "NotFound")
         IN IF r.err # "none"
            THEN JSONPathString(Append(path, Head(targets)))
            ELSE getElementLocation(h, r.v, Tail(targets),
                                    Append(path, Head(targets)))

\* the segments of the location that an error of recursiveUpdateElement
\* prints: those after "JSON", up to the target the call stops at
RECURSIVE recursiveUpdateLocation(_, _, _, _, _, _)
recursiveUpdateLocation(h, option, parent, currentTarget, location, remainingTargets) ==
    LET isTail == Len(remainingTargets) = 1
        here == Append(location, currentTarget)
    IN CASE parent.k = "map" ->
            LET parentObj == h.maps[parent.x]
                isExist == currentTarget \in DOMAIN parentObj
                child == IF isExist THEN parentObj[currentTarget] ELSE Null
            IN IF ~isExist /\ option \in {updateOptionSet, updateOptionRemove}
               THEN here
               ELSE IF isTail THEN here
               ELSE recursiveUpdateLocation(h, option, child,
                        Head(remainingTargets), here, Tail(remainingTargets))
         [] parent.k = "slice" ->
            LET a == Atoi(currentTarget)
                len == parent.x.len
            IN IF ~a.ok THEN here
               ELSE IF len = 0 \/ a.n >= len THEN here
               ELSE IF isTail \/ a.n < 0 THEN here
               ELSE recursiveUpdateLocation(h, option,
                        h.arrs[parent.x.p][a.n + 1],
                        Head(remainingTargets), here, Tail(remainingTargets))
         [] OTHER -> here

\* the segments that the error of updateElement prints: none for the error
\* of deepCopy or of updateTopLevelElement
updateElementLocation(h, root, option, targets, err) ==
    IF err = "SerializationFailure" \/ targets = <<>> THEN <<>>
    ELSE recursiveUpdateLocation(h, option, root, Head(targets), <<>>,
                                 Append(Tail(targets), <<>>))

\* String(): the compact text of the whole value
String(h, root) == Marshal(Deref(h, root))

\* je.SetElement(nVal, targets...) once the new value is decoded
setDecoded(h, root, targets, n) ==
    IF ~n.ok THEN Res(h, root, "SerializationFailure")
    ELSE updateElement(h, root, updateOptionSet, n.v, targets)

\* (a slip: the text is decoded without being quoted first)
escapeTextUnquoted(h, root, targets, elementStr) ==
    IF elementStr = <<"\"", "\"">> THEN Res(h, root, "none")
    ELSE setDecoded(h, root, targets, Unmarshal(elementStr))

\* (a slip: the empty string is quoted like every other value)
escapeTextAlways(h, root, targets, elementStr) ==
    setDecoded(h, root, targets, Unmarshal(Quote(elementStr)))

escapeText(h, root, targets, elementStr) ==
    IF elementStr = <<"\"", "\"">> THEN Res(h, root, "none")
    ELSE setDecoded(h, root, targets, Unmarshal(Quote(elementStr)))

escapeFound(h, root, targets, e) ==
    IF e.err # "none" THEN Res(h, root, e.err)
    ELSE escapeText(h, root, targets, String(h, e.v))

EscapeElement(h, root, targets) ==
    escapeFound(h, root, targets, getElement(h, root, targets))

\* (a slip: a text that is no quoted literal is passed over in silence)
unescapeUnquotedLenient(h, root, targets, u) ==
    IF ~u.ok THEN Res(h, root, "none")
    ELSE setDecoded(h, root, targets, Unmarshal(u.v))

unescapeUnquoted(h, root, targets, u) ==
    IF ~u.ok THEN Res(h, root, "TypeMismatch")
    ELSE setDecoded(h, root, targets, Unmarshal(u.v))

unescapeText(h, root, targets, elementStr) ==
    IF elementStr = <<"\"", "\"">> THEN Res(h, root, "none")
    ELSE unescapeUnquoted(h, root, targets, Unquote(elementStr))

unescapeFound(h, root, targets, e) ==
    IF e.err # "none" THEN Res(h, root, e.err)
    ELSE unescapeText(h, root, targets, String(h, e.v))

UnescapeElement(h, root, targets) ==
    unescapeFound(h, root, targets, getElement(h, root, targets))

\* (a slip: the new handle holds je.value itself)
CopyShared(h, root) == Res(h, root, "none")

\* Copy(): the error of deepCopy is dropped, the new handle holds nVal
Copy(h, root) == deepCopy(h, root)

\* NewBJSON: a string is taken as JSON text
NewBJSON(h, data) ==
    deepCopy(h, IF data.k = "str" THEN [k |-> "bytes", x |-> data.x] ELSE data)

(***************************************************************************)
(* Inputs of the runs                                                      *)
(***************************************************************************)
SegA == <<"a">>
Seg0 == <<"0">>
Seg1 == <<"1">>
SegNeg == <<"-", "1">>

Segs == {SegA, Seg0, Seg1, SegNeg}

\* every path of at most two segments, and two paths of three
Paths ==
    {<<>>} \cup {<<s>> : s \in Segs} \cup {<<s, t>> : s \in Segs, t \in Segs}
           \cup {<<Seg1, Seg0, SegA>>, <<Seg0, Seg0, SegA>>}

\* the documents a tree is created from
Doc1 == Arr(<<Arr(<<Num(1)>>), Obj([q \in {SegA} |-> Null])>>)
Doc2 == Obj([q \in {SegA, Seg0} |->
            IF q = SegA THEN Arr(<<Num(1), Arr(<<>>)>>)
            ELSE Obj([w \in {SegA} |-> Str(<<>>)])])
Doc3 == Arr(<<Num(1), Str(<<"a">>), Bool(TRUE)>>)
Doc4 == Num(1)
Doc5 == Null
Doc6 == Str(<<"[", "1", "]">>)
Doc7 == Bool(TRUE)

Docs == {Doc1, Doc2, Doc3, Doc4, Doc5, Doc6, Doc7}

\* the values handed to AddElement and SetElement: nil, a number, a slice
\* literal, a map literal
Values == {Null, Num(7), Arr(<<Num(7)>>), Obj([q \in {Seg0} |-> Num(7)])}

\* SpecEscape: documents with strings to escape and to unescape
\* ["\"a", true, {"a":[1,""]}]
EscDoc1 == Arr(<<Str(<<"\"", "a">>), Bool(TRUE),
                Obj([q \in {SegA} |-> Arr(<<Num(1), Str(<<>>)>>)])>>)
\* {"a":"[1]", "0":"a\\"}
EscDoc2 == Obj([q \in {SegA, Seg0} |->
               IF q = SegA THEN Str(<<"[", "1", "]">>)
               ELSE Str(<<"a", "\\">>)])
\* a String that holds the character DEL (U+007F)
EscDoc3 == Arr(<<Str(<<"a", "DEL">>), Null>>)
EscDoc4 == Str(<<>>)
EscDoc5 == Num(-1)
\* Strings that hold the JSON text of a String: of "", and of "a" DEL
EscDoc6 == Arr(<<Str(<<"\"", "\"">>), Str(<<"\"", "a", "DEL", "\"">>)>>)

EscDocs == {EscDoc1, EscDoc2, EscDoc3, EscDoc4, EscDoc5, EscDoc6}

Seg2 == <<"2">>

EscPaths ==
    {<<>>, <<SegA>>, <<Seg0>>, <<Seg1>>, <<SegNeg>>,
     <<Seg2, SegA>>, <<SegA, Seg0>>, <<SegA, Seg1>>,
     <<Seg2, SegA, Seg1>>}

\* SpecAlias: the documents of the tree, the document of the caller's own
\* handle, the paths and the values (a number, or the caller's handle)
AliasDoc1 == Obj([q \in {SegA} |-> Obj([w \in {SegA} |-> Num(1)])])
AliasDoc2 == Obj([q \in {SegA} |-> Arr(<<Num(1), Num(2), Num(3)>>)])

AliasDocs == {AliasDoc1, AliasDoc2}

CallerDoc == Obj([q \in {SegA} |-> Arr(<<Num(1)>>)])

AliasPaths == {<<>>, <<SegA>>, <<Seg0>>, <<SegA, Seg0>>}

CallerHandle == [k |-> "handle", x |-> "v"]

AliasValues == {Num(7), CallerHandle}

(***************************************************************************)
(* State.  handles[n] is je.value of handle n, or Absent before the handle *)
(* exists: "t" is the tree, "g" the result of t.GetElement, "c" the result *)
(* of t.Copy, "v" a handle of the caller's own.  last describes the call   *)
(* made last: its receiver, arguments and error, the content of every      *)
(* handle before the call (pre) and the content of the element a read      *)
(* returned (out).  inserted remembers the path at which the value of the  *)
(* caller's handle was last put into the tree.  legacy is the document     *)
(* object of the older API of bjson.go, tracer the path tracer; the calls  *)
(* on the handles leave both alone.  tracer.t is the tracer, tracer.trues  *)
(* counts the calls of next() on it that returned true.                    *)
(***************************************************************************)
\* newBJSON(): an empty map, no root element, nothing escaped
newBJSON == [value |-> <<>>, rootJSONElement |-> <<>>, escapedElements |-> {}]

\* newTracer(targets)
newTracer(targets) ==
    [origin |-> targets, remaining |-> targets, passed |-> <<>>]

isTail(t) == Len(t.remaining) = 0

\* (a slip: remaining is not moved on)
nextStuck(t) ==
    IF isTail(t) THEN [t |-> t, ok |-> FALSE]
    ELSE [t |-> [t EXCEPT !.passed = Append(@, t.remaining[1])], ok |-> TRUE]

\* next(): the tracer afterwards and the result
next(t) ==
    IF isTail(t) THEN [t |-> t, ok |-> FALSE]
    ELSE [t |-> [t EXCEPT !.passed = Append(@, t.remaining[1]),
                          !.remaining = Tail(@)],
          ok |-> TRUE]

\* currTarget(): "" before the first target was passed
currTarget(t) ==
    IF Len(t.passed) = 0 THEN <<>> ELSE t.passed[Len(t.passed)]

HandleNames == {"t", "g", "c", "v"}

Absent == [k |-> "absent", x |-> 0]

Live(n) == handles[n] # Absent

\* the content of a handle's value in heap h
Content(h, hs, n) == IF hs[n] = Absent THEN Absent ELSE Deref(h, hs[n])

Snapshot == [n \in HandleNames |-> Content(heap, handles, n)]

\* was: the call before this one
OptionOf(op) ==
    CASE op = "AddElement" -> updateOptionAdd
      [] op = "SetElement" -> updateOptionSet
      [] op = "RemoveElement" -> updateOptionRemove

\* the path segments that the error text of the call shows
Location(op, n, path, err) ==
    CASE err \in {"none", "panic"} -> <<>>
      [] op = "GetElement" -> getElementLocation(heap, handles[n], path, <<>>)
      [] op \in {"AddElement", "SetElement", "RemoveElement"} ->
            updateElementLocation(heap, handles[n], OptionOf(op), path, err)
      [] OTHER -> <<>>

Call(op, n, path, arg, err, out) ==
    [op |-> op, h |-> n, path |-> path, arg |-> arg, err |-> err,
     pre |-> Snapshot, out |-> out, named |-> Location(op, n, path, err),
     was |-> [op |-> last.op, h |-> last.h, path |-> last.path,
              arg |-> last.arg, err |-> last.err, pre |-> last.pre,
              out |-> last.out]]

NotInserted == [done |-> FALSE, path |-> <<>>]

\* a panic ends the program
Running(bound) == steps < bound /\ last.err # "panic"

Started(r, hs, bj, tr) ==
    /\ heap = r.h
    /\ handles = hs
    /\ last = [op |-> "NewBJSON", h |-> "t", path |-> <<>>, arg |-> Null,
               err |-> "none",
               pre |-> [n \in HandleNames |-> Absent], out |-> Null,
               named |-> <<>>,
               was |-> [op |-> "none", h |-> "t", path |-> <<>>,
                        arg |-> Null, err |-> "none",
                        pre |-> [n \in HandleNames |-> Absent],
                        out |-> Null]]
    /\ steps = 0
    /\ inserted = NotInserted
    /\ legacy = bj
    /\ tracer = [t |-> tr, trues |-> 0]

Created(r, hs) == Started(r, hs, newBJSON, newTracer(<<>>))

OneHandle(r) ==
    Created(r, [n \in HandleNames |-> IF n = "t" THEN r.v ELSE Absent])

\* t, err := NewBJSON(text)
Init ==
    \E d \in Docs :
        OneHandle(NewBJSON(EmptyHeap, [k |-> "bytes", x |-> Marshal(d)]))

TwoHandles(rt, rv) ==
    Created(rv, [n \in HandleNames |->
                    IF n = "t" THEN rt.v ELSE IF n = "v" THEN rv.v ELSE Absent])

SecondHandle(rt) ==
    TwoHandles(rt, NewBJSON(rt.h, [k |-> "bytes", x |-> Marshal(CallerDoc)]))

\* t, err := NewBJSON(text); v, err := NewBJSON(text)
InitAlias ==
    \E d \in AliasDocs :
        SecondHandle(NewBJSON(EmptyHeap, [k |-> "bytes", x |-> Marshal(d)]))

\* the value a call receives for an argument: a literal, or a *bjson
ArgValue(d) ==
    IF d.k = "handle" THEN [k |-> "bjson", x |-> handles[d.x]] ELSE d

ArgContent(d) == IF d.k = "handle" THEN Content(heap, handles, d.x) ELSE d

\* the call returned r: the heap and the receiver's je.value are r's
Returned(op, n, path, d, r) ==
    /\ heap' = r.h
    /\ handles' = [handles EXCEPT ![n] = r.v]
    /\ last' = Call(op, n, path, ArgContent(d), r.err, Null)
    /\ steps' = steps + 1
    /\ inserted' = IF d.k = "handle" /\ n = "t" /\ r.err = "none"
                   THEN [done |-> TRUE, path |-> path] ELSE inserted
    /\ UNCHANGED <<legacy, tracer>>

\* n.AddElement(d, path...) / n.SetElement(d, path...) / n.RemoveElement(path...)
Update(op, option, n, path, d) ==
    Returned(op, n, path, d,
             updateElement(heap, handles[n], option, ArgValue(d), path))

Add(ns, ps, ds) ==
    \E n \in ns, path \in ps, d \in ds :
        Live(n) /\ Update("AddElement", updateOptionAdd, n, path, d)

Set(ns, ps, ds) ==
    \E n \in ns, path \in ps, d \in ds :
        Live(n) /\ Update("SetElement", updateOptionSet, n, path, d)

Remove(ns, ps) ==
    \E n \in ns, path \in ps :
        Live(n) /\ Update("RemoveElement", updateOptionRemove, n, path, Null)

EscapeAt(ns, ps) ==
    \E n \in ns, path \in ps :
        Live(n) /\ Returned("EscapeElement", n, path, Null,
                            EscapeElement(heap, handles[n], path))

UnescapeAt(ns, ps) ==
    \E n \in ns, path \in ps :
        Live(n) /\ Returned("UnescapeElement", n, path, Null,
                            UnescapeElement(heap, handles[n], path))

\* e, err := t.GetElement(path...); keep says whether the caller keeps e
\* as handle "g" or only reads it
Got(path, r, keep) ==
    /\ last' = Call("GetElement", "t", path, Null, r.err,
                    IF r.err = "none" THEN Deref(heap, r.v) ELSE Null)
    /\ steps' = steps + 1
    /\ handles' = IF keep /\ r.err = "none"
                  THEN [handles EXCEPT !["g"] = r.v] ELSE handles
    /\ UNCHANGED <<heap, inserted, legacy, tracer>>

Get(ps, keep) ==
    \E path \in ps : Got(path, getElement(heap, handles["t"], path), keep)

\* Len()
LenOf(a) ==
    CASE a.k = "obj" -> Cardinality(DOMAIN a.x)
      [] a.k = "arr" -> Len(a.x)
      [] a.k = "str" -> Len(a.x)
      [] OTHER -> 0

\* t.Len()
Measured(n) ==
    /\ last' = Call("Len", "t", <<>>, Null, "none", Num(n))
    /\ steps' = steps + 1
    /\ UNCHANGED <<heap, handles, inserted, legacy, tracer>>

\* c := t.Copy()
Copied(r) ==
    /\ heap' = r.h
    /\ handles' = [handles EXCEPT !["c"] = r.v]
    /\ last' = Call("Copy", "t", <<>>, Null, "none", Null)
    /\ steps' = steps + 1
    /\ UNCHANGED <<inserted, legacy, tracer>>

(***************************************************************************)
(* Spec: one tree and the calls on it                                      *)
(***************************************************************************)
AddElement == Running(MaxSteps) /\ Add({"t"}, Paths, Values)

SetElement == Running(MaxSteps) /\ Set({"t"}, Paths, Values)

RemoveElement == Running(MaxSteps) /\ Remove({"t"}, Paths)

GetElement == Running(MaxSteps) /\ Get(Paths, FALSE)

Escape == Running(MaxSteps) /\ EscapeAt({"t"}, Paths)

Unescape == Running(MaxSteps) /\ UnescapeAt({"t"}, Paths)

Next ==
    \/ AddElement
    \/ SetElement
    \/ RemoveElement
    \/ GetElement
    \/ Escape
    \/ Unescape

Spec == Init /\ [][Next]_vars

(***************************************************************************)
(* SpecAlias: the tree, the caller's own handle, and the handles that      *)
(* GetElement and Copy return; every live handle takes the calls           *)
(***************************************************************************)
GetHandle == Running(MaxCalls) /\ Get(AliasPaths, TRUE)

CopyHandle == Running(MaxCalls) /\ Copied(Copy(heap, handles["t"]))

AliasAdd == Running(MaxCalls) /\ Add(HandleNames, AliasPaths, AliasValues)

AliasSet == Running(MaxCalls) /\ Set(HandleNames, AliasPaths, AliasValues)

AliasRemove == Running(MaxCalls) /\ Remove(HandleNames, AliasPaths)

AliasEscape == Running(MaxCalls) /\ EscapeAt(HandleNames, AliasPaths)

AliasUnescape == Running(MaxCalls) /\ UnescapeAt(HandleNames, AliasPaths)

NextAlias ==
    \/ GetHandle
    \/ CopyHandle
    \/ AliasAdd
    \/ AliasSet
    \/ AliasRemove
    \/ AliasEscape
    \/ AliasUnescape

SpecAlias == InitAlias /\ [][NextAlias]_vars

(***************************************************************************)
(* SpecFrame: one update of a tree, by paths that also write an index with *)
(* a leading zero (strconv.Atoi reads "00" as 0)                           *)
(***************************************************************************)
Seg00 == <<"0", "0">>

FramePaths ==
    Paths \cup {<<Seg00>>, <<Seg00, Seg0>>, <<Seg0, Seg00>>, <<Seg1, Seg00>>,
                <<SegA, Seg00>>, <<Seg00, Seg00>>}

FrameAdd == Running(MaxFrames) /\ Add({"t"}, FramePaths, Values)

FrameSet == Running(MaxFrames) /\ Set({"t"}, FramePaths, Values)

FrameRemove == Running(MaxFrames) /\ Remove({"t"}, FramePaths)

NextFrame ==
    \/ FrameAdd
    \/ FrameSet
    \/ FrameRemove

SpecFrame == Init /\ [][NextFrame]_vars

(***************************************************************************)
(* The document object of bjson.go: value is the map the document was      *)
(* decoded into (by content: no call hands out a reference into it),       *)
(* rootJSONElement the path MarshalJSON starts from, escapedElements the   *)
(* set of joined paths whose flag is true                                  *)
(***************************************************************************)
BJ(bj, err) == [bj |-> bj, err |-> err]

\* strings.Join(targetElement, ".")
RECURSIVE JoinDot(_)
JoinDot(targetElement) ==
    IF targetElement = <<>> THEN <<>>
    ELSE IF Len(targetElement) = 1 THEN targetElement[1]
    ELSE targetElement[1] \o <<".">> \o JoinDot(Tail(targetElement))

isElementEquals(a, b) ==
    Len(a) = Len(b) /\ \A i \in 1..Len(a) : a[i] = b[i]

\* populateEscapedElements(prefix, m): the keys it flags
RECURSIVE populateEscapedElements(_, _)
populateEscapedElements(prefix, m) ==
    UNION {LET fullKey == IF prefix # <<>> THEN prefix \o <<".">> \o key
                          ELSE key
           IN IF m[key].k = "obj"
              THEN populateEscapedElements(fullKey, m[key].x)
              ELSE IF m[key].k = "str"
                      /\ (HasAt(m[key].x, 1, <<"{">>)
                          \/ HasAt(m[key].x, 1, <<"[">>))
              THEN {fullKey} ELSE {} : key \in DOMAIN m}

\* UnmarshalJSON(data); a text that is no object is an error of
\* json.Unmarshal (the text null, which would leave a nil map, is not among
\* the documents)
UnmarshalJSON(data) ==
    IF ~Unmarshal(data).ok \/ Unmarshal(data).v.k # "obj"
    THEN BJ(newBJSON, "SerializationFailure")
    ELSE BJ([value |-> Unmarshal(data).v.x,
             rootJSONElement |-> <<>>,
             escapedElements |->
                 populateEscapedElements(<<>>, Unmarshal(data).v.x)],
            "none")

\* the loop of getElement and of RemoveElement over the keys before the
\* last; nilIsMissing is the elem == nil test that only setElement makes
RECURSIVE descend(_, _, _)
descend(current, keys, nilIsMissing) ==
    IF keys = <<>> THEN [err |-> "none", m |-> current]
    ELSE IF Head(keys) \notin DOMAIN current
            \/ (nilIsMissing /\ current[Head(keys)].k = "null")
    THEN [err |-> "NotFound", m |-> <<>>]
    ELSE IF current[Head(keys)].k = "obj"
    THEN descend(current[Head(keys)].x, Tail(keys), nilIsMissing)
    ELSE [err |-> "InvalidType", m |-> <<>>]

\* current[last]: nil (null) when the key is not there
found(d, key) ==
    IF d.err # "none" THEN [err |-> d.err, v |-> Null]
    ELSE [err |-> "none", v |-> IF key \in DOMAIN d.m THEN d.m[key] ELSE Null]

bjGetElement(bj, targetElement) ==
    IF Len(targetElement) = 0 THEN [err |-> "EmptyTarget", v |-> Null]
    ELSE found(descend(bj.value,
                       SubSeq(targetElement, 1, Len(targetElement) - 1),
                       FALSE),
               targetElement[Len(targetElement)])

\* the map with current[last] = value at the end of the keys
RECURSIVE stored(_, _, _)
stored(current, keys, value) ==
    IF Len(keys) = 1
    THEN [q \in (DOMAIN current) \cup {keys[1]} |->
             IF q = keys[1] THEN value ELSE current[q]]
    ELSE [current EXCEPT ![Head(keys)] =
             Obj(stored(current[Head(keys)].x, Tail(keys), value))]

bjSetTo(bj, d, targetElement, value) ==
    IF d.err # "none" THEN BJ(bj, d.err)
    ELSE BJ([bj EXCEPT !.value = stored(@, targetElement, value)], "none")

bjSetElement(bj, targetElement, value) ==
    IF Len(targetElement) = 0 THEN BJ(bj, "EmptyTarget")
    ELSE bjSetTo(bj,
                 descend(bj.value,
                         SubSeq(targetElement, 1, Len(targetElement) - 1),
                         TRUE),
                 targetElement, value)

\* the map without the last key at the end of the keys
RECURSIVE deleted(_, _)
deleted(current, keys) ==
    IF Len(keys) = 1
    THEN [q \in (DOMAIN current) \ {keys[1]} |-> current[q]]
    ELSE [current EXCEPT ![Head(keys)] =
             Obj(deleted(current[Head(keys)].x, Tail(keys)))]

bjRemoveFrom(bj, d, targetElement) ==
    IF d.err # "none" THEN BJ(bj, d.err)
    ELSE IF targetElement[Len(targetElement)] \notin DOMAIN d.m
    THEN BJ(bj, "NotFound")
    ELSE BJ([bj EXCEPT !.value = deleted(@, targetElement)], "none")

\* RemoveElement of bjson.go
bjRemoveElement(bj, targetElement) ==
    IF Len(targetElement) = 0 THEN BJ(bj, "EmptyTarget")
    ELSE bjRemoveFrom(bj,
                      descend(bj.value,
                              SubSeq(targetElement, 1, Len(targetElement) - 1),
                              FALSE),
                      targetElement)

marshalElement(e) ==
    IF e.err # "none" THEN [err |-> e.err, out |-> Null]
    ELSE [err |-> "none", out |-> [k |-> "bytes", x |-> Marshal(e.v)]]

\* (a slip: the root element is not looked at)
MarshalJSONWhole(bj) ==
    [err |-> "none", out |-> [k |-> "bytes", x |-> Marshal(Obj(bj.value))]]

MarshalJSON(bj) ==
    IF Len(bj.rootJSONElement) = 0
    THEN [err |-> "none", out |-> [k |-> "bytes", x |-> Marshal(Obj(bj.value))]]
    ELSE marshalElement(bjGetElement(bj, bj.rootJSONElement))

setRootTo(bj, e, targetElement) ==
    IF e.err # "none" THEN BJ(bj, e.err)
    ELSE IF e.v = Null THEN BJ(bj, "NotFound")
    ELSE IF e.v.k # "obj" THEN BJ(bj, "NotObject")
    ELSE BJ([bj EXCEPT !.rootJSONElement = targetElement], "none")

SetMarshalRootJSONElement(bj, targetElement) ==
    IF Len(targetElement) = 0 THEN BJ(bj, "EmptyTarget")
    ELSE setRootTo(bj, bjGetElement(bj, targetElement), targetElement)

ResetMarshalRootJSONElement(bj) ==
    BJ([bj EXCEPT !.rootJSONElement = <<>>], "none")

\* the flag is set before setElement is called
escapeFoundElement(bj, e, targetElement) ==
    IF e.err # "none" THEN BJ(bj, e.err)
    ELSE IF e.v.k \notin {"obj", "arr"} THEN BJ(bj, "NotContainer")
    ELSE bjSetElement([bj EXCEPT !.escapedElements =
                                     @ \cup {JoinDot(targetElement)}],
                      targetElement, Str(Marshal(e.v)))

EscapeJSONElement(bj, targetElement) ==
    IF Len(targetElement) = 0 THEN BJ(bj, "EmptyTarget")
    ELSE IF isElementEquals(bj.rootJSONElement, targetElement)
    THEN BJ(bj, "IsRoot")
    ELSE escapeFoundElement(bj, bjGetElement(bj, targetElement),
                            targetElement)

unescapeParsed(bj, unescaped, targetElement) ==
    IF ~unescaped.ok THEN BJ(bj, "SerializationFailure")
    ELSE IF unescaped.v.k \notin {"obj", "arr"} THEN BJ(bj, "NotContainer")
    ELSE bjSetElement([bj EXCEPT !.escapedElements =
                                     @ \ {JoinDot(targetElement)}],
                      targetElement, unescaped.v)

unescapeFoundElement(bj, e, targetElement) ==
    IF e.err # "none" THEN BJ(bj, e.err)
    ELSE IF e.v.k # "str" THEN BJ(bj, "NotString")
    ELSE unescapeParsed(bj, Unmarshal(e.v.x), targetElement)

UnescapeJSONElement(bj, targetElement) ==
    IF Len(targetElement) = 0 THEN BJ(bj, "EmptyTarget")
    ELSE IF JoinDot(targetElement) \notin bj.escapedElements
    THEN BJ(bj, "NotEscaped")
    ELSE unescapeFoundElement(bj, bjGetElement(bj, targetElement),
                              targetElement)

(***************************************************************************)
(* SpecLegacy: one document object of bjson.go and the calls on it         *)
(***************************************************************************)
SegB == <<"b">>
SegAB == <<"a", ".", "b">>

\* {"a":{"b":[1]}, "a.b":" [1]"}
LegacyDoc1 ==
    Obj([q \in {SegA, SegAB} |->
            IF q = SegA THEN Obj([w \in {SegB} |-> Arr(<<Num(1)>>)])
            ELSE Str(<<" ", "[", "1", "]">>)])
\* {"a":{"b":{"a":1}}, "b":"[1]"}
LegacyDoc2 ==
    Obj([q \in {SegA, SegB} |->
            IF q = SegA
            THEN Obj([w \in {SegB} |-> Obj([u \in {SegA} |-> Num(1)])])
            ELSE Str(<<"[", "1", "]">>)])
\* {"a":"{}", "b":null}
LegacyDoc3 ==
    Obj([q \in {SegA, SegB} |->
            IF q = SegA THEN Str(<<"{", "}">>) ELSE Null])

LegacyDocs == {LegacyDoc1, LegacyDoc2, LegacyDoc3}

LegacyPaths == {<<>>, <<SegA>>, <<SegB>>, <<SegA, SegB>>, <<SegAB>>}

InitLegacy ==
    \E d \in LegacyDocs :
        Started(Res(EmptyHeap, Null, "none"), [n \in HandleNames |-> Absent],
                UnmarshalJSON(Marshal(d)).bj, newTracer(<<>>))

\* the call record holds the document object before the call as its argument
LegacyCall(op, path, r, out) ==
    /\ legacy' = r.bj
    /\ last' = Call(op, "t", path, [k |-> "legacy", x |-> legacy], r.err, out)
    /\ steps' = steps + 1
    /\ UNCHANGED <<heap, handles, inserted, tracer>>

LegacyUnmarshal ==
    /\ Running(MaxLegacy)
    /\ \E d \in LegacyDocs :
          LegacyCall("UnmarshalJSON", <<>>, UnmarshalJSON(Marshal(d)), Null)

LegacyMarshal ==
    /\ Running(MaxLegacy)
    /\ LegacyCall("MarshalJSON", <<>>, BJ(legacy, MarshalJSON(legacy).err),
                  MarshalJSON(legacy).out)

LegacySetRoot ==
    /\ Running(MaxLegacy)
    /\ \E path \in LegacyPaths :
          LegacyCall("SetMarshalRootJSONElement", path,
                     SetMarshalRootJSONElement(legacy, path), Null)

LegacyResetRoot ==
    /\ Running(MaxLegacy)
    /\ LegacyCall("ResetMarshalRootJSONElement", <<>>,
                  ResetMarshalRootJSONElement(legacy), Null)

LegacyRemove ==
    /\ Running(MaxLegacy)
    /\ \E path \in LegacyPaths :
          LegacyCall("bjson.RemoveElement", path,
                     bjRemoveElement(legacy, path), Null)

LegacyEscape ==
    /\ Running(MaxLegacy)
    /\ \E path \in LegacyPaths :
          LegacyCall("EscapeJSONElement", path,
                     EscapeJSONElement(legacy, path), Null)

LegacyUnescape ==
    /\ Running(MaxLegacy)
    /\ \E path \in LegacyPaths :
          LegacyCall("UnescapeJSONElement", path,
                     UnescapeJSONElement(legacy, path), Null)

NextLegacy ==
    \/ LegacyUnmarshal
    \/ LegacyMarshal
    \/ LegacySetRoot
    \/ LegacyResetRoot
    \/ LegacyRemove
    \/ LegacyEscape
    \/ LegacyUnescape

SpecLegacy == InitLegacy /\ [][NextLegacy]_vars

(***************************************************************************)
(* SpecTracer: a tracer over a list of targets, next() and currTarget()    *)
(***************************************************************************)
TracerTargets ==
    UNION {[1..n -> {SegA, Seg0, Seg1}] : n \in 0..MaxTargets}

InitTracer ==
    \E targets \in TracerTargets :
        Started(Res(EmptyHeap, Null, "none"),
                [n \in HandleNames |-> Absent], newBJSON, newTracer(targets))

\* the call record holds the tracer before the call as its argument
TracerCall(op, r, out) ==
    /\ tracer' = [t |-> r.t,
                  trues |-> tracer.trues + (IF r.ok THEN 1 ELSE 0)]
    /\ last' = Call(op, "t", <<>>, [k |-> "tracer", x |-> tracer.t], "none",
                    out)
    /\ steps' = steps + 1
    /\ UNCHANGED <<heap, handles, inserted, legacy>>

TracerNext ==
    /\ Running(MaxNext)
    /\ TracerCall("next", next(tracer.t), Bool(next(tracer.t).ok))

TracerCurrTarget ==
    /\ Running(MaxNext)
    /\ TracerCall("currTarget", [t |-> tracer.t, ok |-> FALSE],
                  Str(currTarget(tracer.t)))

NextTracer ==
    \/ TracerNext
    \/ TracerCurrTarget

SpecTracer == InitTracer /\ [][NextTracer]_vars

(***************************************************************************)
(* SpecCopy: Copy and Len of a handle, also of one that was built around a *)
(* value json cannot encode (&bjson{value: func() {}}), between updates    *)
(***************************************************************************)
Foreign == [k |-> "func", x |-> 0]

InitCopy ==
    \/ \E d \in AliasDocs \cup {Doc3, Doc5, Doc6} :
          OneHandle(NewBJSON(EmptyHeap, [k |-> "bytes", x |-> Marshal(d)]))
    \/ OneHandle(Res(EmptyHeap, Foreign, "none"))

CopyTree == Running(MaxCopies) /\ Copied(Copy(heap, handles["t"]))

CopySet == Running(MaxCopies) /\ Set({"t", "c"}, AliasPaths, {Num(7), Null})

CopyRemove == Running(MaxCopies) /\ Remove({"t", "c"}, AliasPaths)

LenTree == Running(MaxCopies) /\ Measured(LenOf(Deref(heap, handles["t"])))

NextCopy ==
    \/ CopyTree
    \/ LenTree
    \/ CopySet
    \/ CopyRemove

SpecCopy == InitCopy /\ [][NextCopy]_vars

(***************************************************************************)
(* SpecEscape: one tree, EscapeElement and UnescapeElement in sequence     *)
(***************************************************************************)
InitEscape ==
    \E d \in EscDocs :
        OneHandle(NewBJSON(EmptyHeap, [k |-> "bytes", x |-> Marshal(d)]))

EscapeStep == Running(MaxEscapes) /\ EscapeAt({"t"}, EscPaths)

UnescapeStep == Running(MaxEscapes) /\ UnescapeAt({"t"}, EscPaths)

NextEscape ==
    \/ EscapeStep
    \/ UnescapeStep

SpecEscape == InitEscape /\ [][NextEscape]_vars

(***************************************************************************)
(* Vocabulary of the properties                                            *)
(***************************************************************************)
Mutators == {"AddElement", "SetElement", "RemoveElement"}

Changers == Mutators \cup {"EscapeElement", "UnescapeElement"}

Scalars == {"null", "bool", "num", "str"}

\* the serialized text of handle n now, and before the last call
Text(n) == String(heap, handles[n])

PreText(n) == Marshal(last.pre[n])

SameText(n) == Text(n) = PreText(n)

NoValue == [ok |-> FALSE, v |-> Null]

\* the Navigator of the specification on a value by content: a key on an
\* Object, a decimal index in [0, length) on an Array
RECURSIVE Lookup(_, _)
Lookup(a, path) ==
    IF path = <<>> THEN [ok |-> TRUE, v |-> a]
    ELSE CASE a.k = "obj" ->
                IF Head(path) \in DOMAIN a.x
                THEN Lookup(a.x[Head(path)], Tail(path)) ELSE NoValue
           [] a.k = "arr" ->
                IF Atoi(Head(path)).ok /\ Atoi(Head(path)).n >= 0
                   /\ Atoi(Head(path)).n < Len(a.x)
                THEN Lookup(a.x[Atoi(Head(path)).n + 1], Tail(path))
                ELSE NoValue
           [] OTHER -> NoValue

Front(path) == SubSeq(path, 1, Len(path) - 1)

Final(path) == path[Len(path)]

\* what segment i of the path is applied to
Reached(a, path, i) == Lookup(a, SubSeq(path, 1, i - 1))

\* some segment that parses as a negative integer is applied to an Array
NegativeStep(a, path) ==
    \E i \in 1..Len(path) :
        /\ Reached(a, path, i).ok
        /\ Reached(a, path, i).v.k = "arr"
        /\ Atoi(path[i]).ok
        /\ Atoi(path[i]).n < 0

\* some segment that is no integer, or is at least the length, is applied
\* to an Array
BadIndexStep(a, path) ==
    \E i \in 1..Len(path) :
        /\ Reached(a, path, i).ok
        /\ Reached(a, path, i).v.k = "arr"
        /\ \/ ~Atoi(path[i]).ok
           \/ Atoi(path[i]).n >= Len(Reached(a, path, i).v.x)

\* some segment before the last is applied to an Object without that key,
\* or to a scalar or null
MissingStep(a, path) ==
    \E i \in 1..(Len(path) - 1) :
        /\ Reached(a, path, i).ok
        /\ \/ /\ Reached(a, path, i).v.k = "obj"
              /\ path[i] \notin DOMAIN Reached(a, path, i).v.x
           \/ Reached(a, path, i).v.k \in Scalars

Failed == last.err \notin {"none", "panic"}

(***************************************************************************)
(* Properties                                                              *)
(***************************************************************************)

\* C1: a call of AddElement, SetElement or RemoveElement that returns an
\* error leaves the serialization of the tree as it was before the call.
NoPartialMutation ==
    (last.op \in Mutators /\ Failed) => SameText(last.h)

\* C2: once g := GetElement(path) has succeeded, no call on g changes the
\* serialization of the tree and no call on the tree changes the
\* serialization of g.
GetElementIsolatedCopy ==
    (Live("g") /\ last.op \in Changers) =>
        /\ last.h = "g" => SameText("t")
        /\ last.h = "t" => SameText("g")

\* C3: right after c := Copy(tree) both handles serialize to the same text;
\* afterwards no call on another handle changes the text of c, and no call
\* on c changes the text of the tree.
CopyIsolation ==
    /\ last.op = "Copy" => Text("c") = Text("t")
    /\ (Live("c") /\ last.op \in Changers) =>
          IF last.h = "c" THEN SameText("t") ELSE SameText("c")

WitnessCopyIsolation ==
    /\ Live("c")
    /\ last.op \in Changers
    /\ last.h = "t"
    /\ last.err = "none"
    /\ ~SameText("t")

\* C4: once the value of the caller's handle has been handed to AddElement
\* or SetElement of the tree, no call on the caller's handle changes the
\* tree, and no call on the tree (or on an element got from it) changes the
\* caller's handle.
InsertedValueIsolation ==
    (inserted.done /\ last.op \in Changers) =>
        /\ last.h = "v" => SameText("t")
        /\ last.h \in {"t", "g"} => SameText("v")

WitnessInsertedValue ==
    /\ inserted.done
    /\ last.op \in Changers
    /\ last.h = "v"
    /\ last.err = "none"
    /\ ~SameText("v")

\* C5: a call of AddElement, SetElement or RemoveElement whose path applies
\* a negative integer to an Array returns InvalidIndex and leaves the tree
\* unchanged.
NegativeIndexIsError ==
    (last.op \in Mutators /\ NegativeStep(last.pre[last.h], last.path)) =>
        last.err = "InvalidIndex" /\ SameText(last.h)

\* C6: a call of AddElement, SetElement or RemoveElement whose path applies
\* to an Array a segment that is no decimal integer, or is at least the
\* length of the Array, returns InvalidIndex and leaves the tree unchanged.
BadIndexIsInvalidIndex ==
    (last.op \in Mutators /\ BadIndexStep(last.pre[last.h], last.path)) =>
        last.err = "InvalidIndex" /\ SameText(last.h)

\* C7: AddElement(v, p) where p resolves to an Array succeeds, and afterwards
\* p resolves to that Array followed by v.
AddAppendsToArray ==
    (/\ last.op = "AddElement"
     /\ Lookup(last.pre[last.h], last.path).ok
     /\ Lookup(last.pre[last.h], last.path).v.k = "arr") =>
        /\ last.err = "none"
        /\ Lookup(Content(heap, handles, last.h), last.path) =
              [ok |-> TRUE,
               v |-> Arr(Append(Lookup(last.pre[last.h], last.path).v.x,
                                last.arg))]

\* the Array is an element of an Array
WitnessAddAppends ==
    /\ last.op = "AddElement"
    /\ last.path # <<>>
    /\ Lookup(last.pre[last.h], last.path).ok
    /\ Lookup(last.pre[last.h], last.path).v.k = "arr"
    /\ Lookup(last.pre[last.h], Front(last.path)).v.k = "arr"
    /\ last.arg.k = "arr"
    /\ last.err = "none"

\* the error AddElement owes to a path that resolves to a value that is no
\* Array
OverwriteError(a, path) ==
    IF path # <<>> /\ Lookup(a, Front(path)).v.k = "obj"
    THEN "AlreadyExists" ELSE "InvalidOperation"

\* C8: AddElement(v, p) where p resolves to a value that is not an Array
\* fails, with AlreadyExists at a key of an Object and InvalidOperation at
\* an index of an Array or at the root, and leaves the tree unchanged.
AddNeverOverwrites ==
    (/\ last.op = "AddElement"
     /\ Lookup(last.pre[last.h], last.path).ok
     /\ Lookup(last.pre[last.h], last.path).v.k # "arr") =>
        /\ last.err = OverwriteError(last.pre[last.h], last.path)
        /\ SameText(last.h)

\* the Object that the path without its last segment resolves to, with the
\* last segment mapped to the new value
WithKey(a, path, v) ==
    Obj([q \in (DOMAIN Lookup(a, Front(path)).v.x) \cup {Final(path)} |->
            IF q = Final(path) THEN v ELSE Lookup(a, Front(path)).v.x[q]])

AbsentKey(a, path) ==
    /\ path # <<>>
    /\ Lookup(a, Front(path)).ok
    /\ Lookup(a, Front(path)).v.k = "obj"
    /\ Final(path) \notin DOMAIN Lookup(a, Front(path)).v.x

NoVivification ==
    (/\ last.op = "AddElement"
     /\ Len(last.path) >= 2
     /\ MissingStep(last.pre[last.h], last.path)) =>
        last.err # "none" /\ SameText(last.h)

\* C11: SetElement with a path that is not empty succeeds exactly when the
\* path resolves in the tree before the call; on a key that the Object does
\* not have it returns NotFound and the key is not there afterwards.
SetSucceedsIffResolves ==
    (last.op = "SetElement" /\ last.path # <<>>) =>
        /\ (last.err = "none") <=> Lookup(last.pre[last.h], last.path).ok
        /\ AbsentKey(last.pre[last.h], last.path) =>
              /\ last.err = "NotFound"
              /\ ~Lookup(Content(heap, handles, last.h), last.path).ok

WitnessSetAbsentKey ==
    /\ last.op = "SetElement"
    /\ Len(last.path) = 2
    /\ AbsentKey(last.pre[last.h], last.path)
    /\ last.arg # Null
    /\ last.err = "NotFound"

Without(s, i) == SubSeq(s, 1, i - 1) \o SubSeq(s, i + 1, Len(s))

\* the path ends in an index of the Array its other segments resolve to
ValidIndexTail(a, path) ==
    /\ path # <<>>
    /\ Lookup(a, Front(path)).ok
    /\ Lookup(a, Front(path)).v.k = "arr"
    /\ Atoi(Final(path)).ok
    /\ Atoi(Final(path)).n >= 0
    /\ Atoi(Final(path)).n < Len(Lookup(a, Front(path)).v.x)

\* C13: RemoveElement whose path ends in a valid index i of an Array
\* succeeds, and afterwards the Array is the former one without its element
\* i: the elements before i stay, those after i are one place down.
RemoveShiftsLeft ==
    (last.op = "RemoveElement" /\ ValidIndexTail(last.pre[last.h], last.path)) =>
        /\ last.err = "none"
        /\ Lookup(Content(heap, handles, last.h), Front(last.path)) =
              [ok |-> TRUE,
               v |-> Arr(Without(Lookup(last.pre[last.h], Front(last.path)).v.x,
                                 Atoi(Final(last.path)).n + 1))]

\* the first of three elements is removed
WitnessRemoveShifts ==
    /\ last.op = "RemoveElement"
    /\ ValidIndexTail(last.pre[last.h], last.path)
    /\ Len(Lookup(last.pre[last.h], Front(last.path)).v.x) = 3
    /\ Atoi(Final(last.path)).n = 0
    /\ last.err = "none"


\* the path ends in a segment applied to an Object
ObjectTail(a, path) ==
    /\ path # <<>>
    /\ Lookup(a, Front(path)).ok
    /\ Lookup(a, Front(path)).v.k = "obj"

\* the Object m without the key q
WithoutKey(m, q) == Obj([w \in (DOMAIN m) \ {q} |-> m[w]])

\* C14: RemoveElement whose path ends at an Object deletes the key when the
\* Object has it, the other keys and values staying as they were, and
\* returns NotFound and leaves the tree unchanged when it has not.
RemoveAtObjectTail ==
    (last.op = "RemoveElement" /\ ObjectTail(last.pre[last.h], last.path)) =>
        IF Final(last.path) \in DOMAIN Lookup(last.pre[last.h], Front(last.path)).v.x
        THEN /\ last.err = "none"
             /\ Lookup(Content(heap, handles, last.h), Front(last.path)) =
                   [ok |-> TRUE,
                    v |-> WithoutKey(Lookup(last.pre[last.h], Front(last.path)).v.x,
                                     Final(last.path))]
        ELSE last.err = "NotFound" /\ SameText(last.h)

\* C15: RemoveElement with the empty path returns InvalidOperation whatever
\* the root is, and leaves the root unchanged.
RemoveRootFails ==
    (last.op = "RemoveElement" /\ last.path = <<>>) =>
        last.err = "InvalidOperation" /\ SameText(last.h)

WitnessRemoveRoot ==
    /\ last.op = "RemoveElement"
    /\ last.path = <<>>
    /\ last.pre[last.h].k = "arr"
    /\ last.err = "InvalidOperation"

\* the error of the Navigator: NotFound for a key the Object has not and for
\* a segment applied to a scalar or null, InvalidIndex for a segment that is
\* no index of the Array
RECURSIVE NavError(_, _)
NavError(a, path) ==
    IF path = <<>> THEN "none"
    ELSE CASE a.k = "obj" ->
                IF Head(path) \in DOMAIN a.x
                THEN NavError(a.x[Head(path)], Tail(path)) ELSE "NotFound"
           [] a.k = "arr" ->
                IF Atoi(Head(path)).ok /\ Atoi(Head(path)).n >= 0
                   /\ Atoi(Head(path)).n < Len(a.x)
                THEN NavError(a.x[Atoi(Head(path)).n + 1], Tail(path))
                ELSE "InvalidIndex"
           [] OTHER -> "NotFound"

\* C16: GetElement resolves the path segment by segment from the kind of the
\* container reached: a key on an Object (NotFound if absent), an index in
\* [0, length) on an Array (else InvalidIndex), NotFound on a scalar or null
\* with a segment remaining; the empty path gives the root.  The tree is
\* not changed.
GetElementResolves ==
    last.op = "GetElement" =>
        /\ last.err = NavError(last.pre["t"], last.path)
        /\ last.err = "none" => last.out = Lookup(last.pre["t"], last.path).v
        /\ SameText("t")

\* a key that reads as an integer is looked up on an Object
WitnessGetElement ==
    /\ last.op = "GetElement"
    /\ last.path = <<Seg0, SegA>>
    /\ last.pre["t"].k = "obj"
    /\ last.err = "none"
    /\ last.out = Str(<<>>)


\* the kinds of value the round trip is stated for (every Number of the
\* model is integral)
RoundTripKinds == {"obj", "arr", "bool", "str", "num"}

Resolves(a, path, kinds) ==
    Lookup(a, path).ok /\ Lookup(a, path).v.k \in kinds

\* C17: for a path that resolves to an Object, Array, Bool, String or
\* integral Number, EscapeElement succeeds, and UnescapeElement of the same
\* path right after it succeeds and gives the tree the text it had before
\* the escape.
EscapeUnescapeRoundTrip ==
    /\ (last.op = "EscapeElement"
        /\ Resolves(last.pre["t"], last.path, RoundTripKinds)) =>
            last.err = "none"
    /\ (/\ last.op = "UnescapeElement"
        /\ last.was.op = "EscapeElement"
        /\ last.was.path = last.path
        /\ Resolves(last.was.pre["t"], last.path, RoundTripKinds)) =>
            /\ last.was.err = "none"
            /\ last.err = "none"
            /\ Text("t") = Marshal(last.was.pre["t"])

\* the value a with the value at path replaced by v
RECURSIVE Replace(_, _, _)
Replace(a, path, v) ==
    IF path = <<>> THEN v
    ELSE IF a.k = "obj"
    THEN Obj([q \in DOMAIN a.x |->
                IF q = Head(path) THEN Replace(a.x[q], Tail(path), v)
                ELSE a.x[q]])
    ELSE Arr([i \in 1..Len(a.x) |->
                IF i = Atoi(Head(path)).n + 1
                THEN Replace(a.x[i], Tail(path), v) ELSE a.x[i]])

\* C18: after EscapeElement has succeeded on a value other than the empty
\* String, the value at the path is the String that holds the compact JSON
\* text of the former value, and the rest of the tree is as it was.
EscapeStoresText ==
    (/\ last.op = "EscapeElement"
     /\ last.err = "none"
     /\ Lookup(last.pre["t"], last.path).ok
     /\ Lookup(last.pre["t"], last.path).v # Str(<<>>)) =>
        Content(heap, handles, "t") =
            Replace(last.pre["t"], last.path,
                    Str(Marshal(Lookup(last.pre["t"], last.path).v)))

\* a String below the root is escaped
WitnessEscapeStoresText ==
    /\ last.op = "EscapeElement"
    /\ last.err = "none"
    /\ last.path # <<>>
    /\ Lookup(last.pre["t"], last.path).ok
    /\ Lookup(last.pre["t"], last.path).v.k = "str"
    /\ Lookup(last.pre["t"], last.path).v.x # <<>>

\* C19: on the empty String EscapeElement and UnescapeElement succeed and
\* leave the tree unchanged; the value at the path is still the empty String.
EmptyStringNoOp ==
    (/\ last.op \in {"EscapeElement", "UnescapeElement"}
     /\ Lookup(last.pre["t"], last.path).ok
     /\ Lookup(last.pre["t"], last.path).v = Str(<<>>)) =>
        /\ last.err = "none"
        /\ SameText("t")
        /\ Lookup(Content(heap, handles, "t"), last.path).v = Str(<<>>)

WitnessEmptyString ==
    /\ last.op = "EscapeElement"
    /\ last.path # <<>>
    /\ Lookup(last.pre["t"], last.path).ok
    /\ Lookup(last.pre["t"], last.path).v = Str(<<>>)
    /\ last.err = "none"

\* C20: UnescapeElement succeeds only on a String that is empty or holds
\* JSON text.  Otherwise it returns the error of the Navigator when the path
\* does not resolve, TypeMismatch when the value is no String, and
\* SerializationFailure when the String holds no JSON text, and the tree is
\* unchanged.
UnescapeFailsCleanly ==
    last.op = "UnescapeElement" =>
        IF ~Lookup(last.pre["t"], last.path).ok
        THEN last.err = NavError(last.pre["t"], last.path) /\ SameText("t")
        ELSE IF Lookup(last.pre["t"], last.path).v.k # "str"
        THEN last.err = "TypeMismatch" /\ SameText("t")
        ELSE IF \/ Lookup(last.pre["t"], last.path).v.x = <<>>
                \/ Unmarshal(Lookup(last.pre["t"], last.path).v.x).ok
        THEN TRUE
        ELSE last.err = "SerializationFailure" /\ SameText("t")

\* a container is refused
WitnessUnescapeFails ==
    /\ last.op = "UnescapeElement"
    /\ last.path # <<>>
    /\ Lookup(last.pre["t"], last.path).ok
    /\ Lookup(last.pre["t"], last.path).v.k \in {"arr", "obj"}
    /\ last.err = "TypeMismatch"


\* the text is the compact JSON text of a value of the kinds of the round
\* trip
CanonicalText(text) ==
    /\ Unmarshal(text).ok
    /\ Unmarshal(text).v.k \in RoundTripKinds
    /\ Marshal(Unmarshal(text).v) = text

\* C21: for a path that holds a String whose content is the compact JSON
\* text of an Object, Array, Bool, String or integral Number,
\* UnescapeElement succeeds, and EscapeElement of the same path right after
\* it succeeds and gives the tree the text it had before the unescape.
UnescapeEscapeRoundTrip ==
    (/\ last.op = "EscapeElement"
     /\ last.was.op = "UnescapeElement"
     /\ last.was.path = last.path
     /\ Resolves(last.was.pre["t"], last.path, {"str"})
     /\ CanonicalText(Lookup(last.was.pre["t"], last.path).v.x)) =>
        /\ last.was.err = "none"
        /\ last.err = "none"
        /\ Text("t") = Marshal(last.was.pre["t"])


\* C22: Copy of a handle whose value has no JSON form returns an error and
\* no handle, and the handle copied from is as it was.
CopyFailsCleanly ==
    (last.op = "Copy" /\ Unsupported(last.pre["t"])) =>
        /\ last.err # "none"
        /\ Content(heap, handles, "c") = last.pre["c"]
        /\ Content(heap, handles, "t") = last.pre["t"]


\* the segments p stand next to each other in the text
Names(text, p) ==
    \E i \in 0..(Len(text) - Len(p)) : SubSeq(text, i + 1, i + Len(p)) = p

\* the position the call fails at: the last one when the whole path
\* resolves, else the first segment that does not resolve
FailingPosition(a, path) ==
    IF Lookup(a, path).ok THEN Len(path)
    ELSE CHOOSE i \in 1..Len(path) :
            /\ Reached(a, path, i).ok
            /\ ~Lookup(a, SubSeq(path, 1, i)).ok

\* C23: the error of GetElement, AddElement, SetElement or RemoveElement
\* names the whole path asked for and the segments up to the position the
\* call failed at, also when that position is the second or a later one.
ErrorNamesPath ==
    (/\ last.op \in Mutators \cup {"GetElement"}
     /\ Failed
     /\ last.err # "SerializationFailure"
     /\ last.path # <<>>) =>
        /\ Names(last.named, last.path)
        /\ Names(last.named,
                 SubSeq(last.path, 1,
                        FailingPosition(last.pre[last.h], last.path)))

\* C24: Len returns the number of keys of an Object, the number of elements
\* of an Array, and 0 for every other kind of value, a String included.
LenCountsMembers ==
    last.op = "Len" =>
        last.out = Num(CASE last.pre["t"].k = "obj" ->
                                Cardinality(DOMAIN last.pre["t"].x)
                         [] last.pre["t"].k = "arr" -> Len(last.pre["t"].x)
                         [] OTHER -> 0)


\* the call before the last one was op on the tree, succeeded, and the last
\* call is GetElement of the same path
ReadAfter(op) ==
    /\ last.op = "GetElement"
    /\ last.was.op = op
    /\ last.was.h = "t"
    /\ last.was.err = "none"
    /\ last.was.path = last.path

\* C27: GetElement(p) right after a successful SetElement(v, p), or after a
\* successful AddElement(v, p) on a key the Object did not have, succeeds
\* and returns a value with the text of v; right after a successful
\* RemoveElement(p) of a key of an Object it fails with NotFound.
ReadAfterWrite ==
    /\ ReadAfter("SetElement") =>
            last.err = "none" /\ Marshal(last.out) = Marshal(last.was.arg)
    /\ (ReadAfter("AddElement") /\ AbsentKey(last.was.pre["t"], last.path)) =>
            last.err = "none" /\ Marshal(last.out) = Marshal(last.was.arg)
    /\ (ReadAfter("RemoveElement")
        /\ ObjectTail(last.was.pre["t"], last.path)) =>
            last.err = "NotFound"

WitnessReadAfterWrite ==
    /\ ReadAfter("RemoveElement")
    /\ ObjectTail(last.was.pre["t"], last.path)
    /\ Final(last.path) \in DOMAIN Lookup(last.was.pre["t"], Front(last.path)).v.x
    /\ last.err = "NotFound"

IsPrefix(s, t) == Len(s) <= Len(t) /\ SubSeq(t, 1, Len(s)) = s

Related(p, q) == IsPrefix(p, q) \/ IsPrefix(q, p)

\* the path with every index it applies to an Array of the value written
\* the plain way ("00" as "0")
RECURSIVE Positions(_, _)
Positions(a, path) ==
    IF path = <<>> THEN <<>>
    ELSE CASE a.k = "obj" /\ Head(path) \in DOMAIN a.x ->
                <<Head(path)>> \o Positions(a.x[Head(path)], Tail(path))
           [] /\ a.k = "arr"
              /\ Atoi(Head(path)).ok
              /\ Atoi(Head(path)).n >= 0
              /\ Atoi(Head(path)).n < Len(a.x) ->
                <<NatText(Atoi(Head(path)).n)>>
                    \o Positions(a.x[Atoi(Head(path)).n + 1], Tail(path))
           [] OTHER -> path

\* p removes an element of an Array and q passes through that Array at the
\* index removed or at a later one
Shifted(a, op, p, q) ==
    /\ op = "RemoveElement"
    /\ ValidIndexTail(a, p)
    /\ Len(q) >= Len(p)
    /\ Front(Positions(a, p)) = SubSeq(Positions(a, q), 1, Len(p) - 1)
    /\ Atoi(q[Len(p)]).ok
    /\ Atoi(q[Len(p)]).n >= Atoi(Final(p)).n

\* q resolved before the last call and resolves to the same value now
SameAt(q) ==
    Lookup(last.pre["t"], q).ok =>
        Lookup(Content(heap, handles, "t"), q) = Lookup(last.pre["t"], q)

\* C28 as stated: after a successful AddElement, SetElement or RemoveElement
\* at p, every path that resolved before, is no prefix and no extension of
\* p, and does not pass the Array p removed from at or after the index,
\* resolves to the value it resolved to before.
FrameByText ==
    (last.op \in Mutators /\ last.err = "none") =>
        \A q \in FramePaths :
            (/\ ~Related(last.path, q)
             /\ ~Shifted(last.pre["t"], last.op, last.path, q)) => SameAt(q)

\* C28, amended: the same with the two paths compared after every index
\* applied to an Array is written the plain way, so that "00" and "0" are
\* the same segment there.
FrameByPosition ==
    (last.op \in Mutators /\ last.err = "none") =>
        \A q \in FramePaths :
            (/\ ~Related(Positions(last.pre["t"], last.path),
                         Positions(last.pre["t"], q))
             /\ ~Shifted(last.pre["t"], last.op, last.path, q)) => SameAt(q)

WitnessFrame ==
    /\ last.op = "SetElement"
    /\ last.err = "none"
    /\ last.path = <<SegA>>
    /\ Lookup(last.pre["t"], <<Seg0, SegA>>).ok
    /\ Lookup(Content(heap, handles, "t"), <<SegA>>).v = Num(7)
    /\ Lookup(last.pre["t"], <<SegA>>).v # Num(7)

\* C30: the targets passed followed by the targets remaining are the list
\* the tracer was made from; next() on a tracer with targets remaining
\* returns true and moves the first of them to the end of the passed ones,
\* and on one without returns false and changes nothing; as many calls
\* return true as there are targets, and currTarget() is the last target
\* once none remains.
TracerAdvances ==
    /\ tracer.t.passed \o tracer.t.remaining = tracer.t.origin
    /\ last.op = "next" =>
          IF last.arg.x.remaining # <<>>
          THEN /\ last.out = Bool(TRUE)
               /\ tracer.t.passed =
                      Append(last.arg.x.passed, last.arg.x.remaining[1])
               /\ tracer.t.remaining = Tail(last.arg.x.remaining)
          ELSE /\ last.out = Bool(FALSE)
               /\ tracer.t = last.arg.x
    /\ tracer.trues <= Len(tracer.t.origin)
    /\ tracer.t.remaining = <<>> =>
          /\ tracer.trues = Len(tracer.t.origin)
          /\ tracer.t.origin # <<>> =>
                currTarget(tracer.t) = tracer.t.origin[Len(tracer.t.origin)]
    /\ last.op = "currTarget" => last.out = Str(currTarget(last.arg.x))

WitnessTracer ==
    /\ last.op = "next"
    /\ last.out = Bool(FALSE)
    /\ tracer.trues = MaxTargets
    /\ currTarget(tracer.t) = tracer.t.origin[MaxTargets]

\* the document of the object now, and before the last call on it
Document == Obj(legacy.value)

DocumentBefore == Obj(last.arg.x.value)

\* the call before the last one was op and returned no error
Followed(op) == last.was.op = op /\ last.was.err = "none"

\* C25: MarshalJSON right after a successful SetMarshalRootJSONElement(p)
\* returns the text of the Object at p and nothing else; right after
\* ResetMarshalRootJSONElement it returns the text of the whole document;
\* none of the three calls changes the document.
MarshalRootSelects ==
    /\ (last.op = "MarshalJSON" /\ Followed("SetMarshalRootJSONElement")) =>
          /\ last.err = "none"
          /\ Resolves(Document, last.was.path, {"obj"})
          /\ last.out.x = Marshal(Lookup(Document, last.was.path).v)
    /\ (last.op = "MarshalJSON" /\ Followed("ResetMarshalRootJSONElement")) =>
          /\ last.err = "none"
          /\ last.out.x = Marshal(Document)
    /\ last.op \in {"SetMarshalRootJSONElement", "ResetMarshalRootJSONElement",
                    "MarshalJSON"} => Document = DocumentBefore

WitnessMarshalRoot ==
    /\ last.op = "MarshalJSON"
    /\ Followed("SetMarshalRootJSONElement")
    /\ last.was.path = <<SegA, SegB>>
    /\ last.out.x = Marshal(Obj([q \in {SegA} |-> Num(1)]))
    /\ last.out.x # Marshal(Document)

\* the document was loaded with a String that begins with { or [ at the path
LoadedEscaped(doc, path) ==
    /\ Resolves(doc, path, {"str"})
    /\ \/ HasAt(Lookup(doc, path).v.x, 1, <<"{">>)
       \/ HasAt(Lookup(doc, path).v.x, 1, <<"[">>)

\* what the calls so far say about the element at the path of the last
\* call: it is not escaped
NotEscaped ==
    \/ steps = 1 /\ ~LoadedEscaped(DocumentBefore, last.path)
    \/ /\ Followed("UnmarshalJSON")
       /\ ~LoadedEscaped(DocumentBefore, last.path)
    \/ /\ steps = 2
       /\ last.was.op # "UnmarshalJSON"
       /\ ~LoadedEscaped(Obj(last.was.arg.x.value), last.path)
       /\ ~(Followed("EscapeJSONElement") /\ last.was.path = last.path)
    \/ Followed("UnescapeJSONElement") /\ last.was.path = last.path

\* C26: UnescapeJSONElement(p) returns an error and leaves the document as
\* it was when the element at p is not escaped: it was not loaded as a
\* String beginning with { or [ and no EscapeJSONElement(p) succeeded, or
\* an UnescapeJSONElement(p) has succeeded since (so an unescape right
\* after a successful unescape of the same path fails).
UnescapeNeedsEscaped ==
    (last.op = "UnescapeJSONElement" /\ NotEscaped) =>
        last.err # "none" /\ Document = DocumentBefore

\* C29: while a marshal root is set, MarshalJSON succeeds and returns the
\* text of an Object, whatever RemoveElement, EscapeJSONElement and
\* UnescapeJSONElement calls were made since.
MarshalRootStaysObject ==
    (last.op = "MarshalJSON" /\ last.arg.x.rootJSONElement # <<>>) =>
        /\ last.err = "none"
        /\ Unmarshal(last.out.x).v.k = "obj"

====
